---- MODULE Spec2Model ----
(***************************************************************************)
(* Model of the hybrid recommendation pipeline of the marketing            *)
(* personalization platform: src/api/recommendation_service.py (the        *)
(* RecommendationService) and src/api/main.py (the cached HTTP handlers).  *)
(*                                                                         *)
(* Numbers the code keeps as Python floats are kept here as exact          *)
(* rationals <<n, d>> in lowest terms with d > 0, so that scores can be    *)
(* compared and averaged exactly.                                          *)
(***************************************************************************)
EXTENDS Integers, Sequences, FiniteSets, TLC

\* ------------------------------------------------------------------------
\* Bounds of the model
\* ------------------------------------------------------------------------

\* Longest raw search result (number of hits) the vector index returns.
MaxHits == 2

\* Largest number of campaigns the graph store knows.
MaxCampaigns == 2

\* Longest data frame (number of rows) the analytics store returns.
MaxRows == 3

\* Largest top_k a request asks for (the smallest is -1).
MaxTopK == 1

\* Longest raw search result given to the similarity stage on its own.
MaxSearchHits == 6

\* Number of request contexts the host runs side by side.
MaxContexts == 2

\* ------------------------------------------------------------------------
\* Exact rational arithmetic
\* ------------------------------------------------------------------------

Abs(x) == IF x < 0 THEN -x ELSE x

RECURSIVE GCD(_, _)
GCD(a, b) == IF b = 0 THEN a ELSE GCD(b, a % b)

\* The rational n/d (d # 0) in lowest terms with a positive denominator.
Rat(n, d) ==
    LET g == GCD(Abs(n), Abs(d))
        s == IF d < 0 THEN -1 ELSE 1
    IN  <<(s * n) \div g, (s * d) \div g>>

Zero == Rat(0, 1)
One == Rat(1, 1)

RAdd(a, b) == Rat(a[1] * b[2] + b[1] * a[2], a[2] * b[2])
RMul(a, b) == Rat(a[1] * b[1], a[2] * b[2])
RDiv(a, b) == Rat(a[1] * b[2], a[2] * b[1])
RLe(a, b) == a[1] * b[2] <= b[1] * a[2]
RLt(a, b) == a[1] * b[2] < b[1] * a[2]
RMin(a, b) == IF RLe(a, b) THEN a ELSE b
RMax(a, b) == IF RLe(a, b) THEN b ELSE a

\* ------------------------------------------------------------------------
\* Python list helpers
\* ------------------------------------------------------------------------

Min(a, b) == IF a <= b THEN a ELSE b
Max(a, b) == IF a >= b THEN a ELSE b

Range(s) == {s[i] : i \in DOMAIN s}

\* d[k] = v on a dict kept as a function.
Put(d, k, v) == [x \in DOMAIN d \cup {k} |-> IF x = k THEN v ELSE d[x]]

\* s[:k] as Python slices a list: a negative k counts from the end.
Slice(s, k) ==
    IF k >= 0 THEN SubSeq(s, 1, Min(k, Len(s)))
    ELSE SubSeq(s, 1, Max(Len(s) + k, 0))

\* Sum of a sequence of rationals.
RECURSIVE RSum(_)
RSum(s) == IF s = <<>> THEN Zero ELSE RAdd(Head(s), RSum(Tail(s)))

\* np.mean of a non-empty list.
Mean(s) == RDiv(RSum(s), Rat(Len(s), 1))

\* ------------------------------------------------------------------------
\* Program constants
\* ------------------------------------------------------------------------

\* get_recommendations asks for this many similar users, whatever top_k is.
FANOUT == 5

\* collection.search is limited to top_k * SEARCH_FACTOR raw hits.
SEARCH_FACTOR == 10

\* metadata.similar_users keeps the first META_USERS entries of user_list.
META_USERS == 3

\* Time to live of a cache entry, in seconds.
CACHE_TTL == 3600

\* RecommendationRequest.top_k is validated to TOPK_GE <= top_k <= TOPK_LE.
TOPK_GE == 1
TOPK_LE == 20

\* Weights of the combined score and the confidence boost.
W_SIMILARITY == Rat(3, 10)
W_USER_COUNT == Rat(2, 10)
W_ENGAGEMENT == Rat(5, 10)
CONFIDENCE_BOOST == Rat(12, 10)

\* ------------------------------------------------------------------------
\* get_similar_users_vector: from raw search hits to similar users
\* ------------------------------------------------------------------------

\* The similar_users dict (kept in insertion order) after the loop over the
\* hits: the query user is skipped, a first hit of a user opens an entry,
\* a repeated hit replaces its distance by (old + new) / 2.
RECURSIVE CollectSimilar(_, _, _)
CollectSimilar(hits, user_id, acc) ==
    IF hits = <<>> THEN acc
    ELSE LET hit == Head(hits)
             idx == {i \in DOMAIN acc : acc[i].user_id = hit.user_id}
         IN  IF hit.user_id = user_id
             THEN CollectSimilar(Tail(hits), user_id, acc)
             ELSE IF idx = {}
             THEN CollectSimilar(Tail(hits), user_id,
                     Append(acc, [user_id |-> hit.user_id,
                                  similarity |-> hit.score,
                                  count |-> 1]))
             ELSE LET i == CHOOSE j \in idx : TRUE
                  IN  CollectSimilar(Tail(hits), user_id,
                         [acc EXCEPT ![i] =
                             [user_id |-> @.user_id,
                              similarity |-> RDiv(RAdd(@.similarity, hit.score), Rat(2, 1)),
                              count |-> @.count + 1]])

\* Variant: the farthest user comes first, as with reverse=True.
RECURSIVE InsertAscendingReversed(_, _)
InsertAscendingReversed(sorted, x) ==
    IF sorted = <<>> THEN <<x>>
    ELSE IF RLe(x.similarity, Head(sorted).similarity)
         THEN <<Head(sorted)>> \o InsertAscendingReversed(Tail(sorted), x)
         ELSE <<x>> \o sorted

\* sorted(..., key=similarity, reverse=False): a stable ascending sort.
RECURSIVE InsertAscending(_, _)
InsertAscending(sorted, x) ==
    IF sorted = <<>> THEN <<x>>
    ELSE IF RLe(Head(sorted).similarity, x.similarity)
         THEN <<Head(sorted)>> \o InsertAscending(Tail(sorted), x)
         ELSE <<x>> \o sorted

RECURSIVE SortAscending(_)
SortAscending(s) ==
    IF s = <<>> THEN <<>>
    ELSE InsertAscending(SortAscending(SubSeq(s, 1, Len(s) - 1)), s[Len(s)])

\* user["similarity"] = 1.0 / (1.0 + user["similarity"])
DistanceToSimilarity(d) == RDiv(One, RAdd(One, d))

\* The list get_similar_users_vector returns for the raw hits of a search.
SimilarUsers(hits, user_id, top_k) ==
    LET raw == SubSeq(hits, 1, Min(Len(hits), top_k * SEARCH_FACTOR))
        kept == Slice(SortAscending(CollectSimilar(raw, user_id, <<>>)), top_k)
    IN  [i \in DOMAIN kept |->
            [kept[i] EXCEPT !.similarity = DistanceToSimilarity(@)]]

\* ------------------------------------------------------------------------
\* get_campaign_engagement_frequency: normalised engagement counts
\* ------------------------------------------------------------------------

\* Variant: the first row's count is taken for the maximum.
MaxCountFirst(rows) == rows[1].engagement_count

\* df["engagement_count"].max()
RECURSIVE MaxCount(_)
MaxCount(rows) ==
    IF Len(rows) = 1 THEN rows[1].engagement_count
    ELSE Max(Head(rows).engagement_count, MaxCount(Tail(rows)))

\* Variant: rows whose largest count is zero give the empty dict.
EngagementFrequencyEmptyOnZero(rows) ==
    IF rows = <<>> THEN <<>>
    ELSE LET max_engagement == MaxCount(rows)
             last(c) == CHOOSE i \in DOMAIN rows :
                           /\ rows[i].campaign_id = c
                           /\ \A j \in DOMAIN rows :
                                 rows[j].campaign_id = c => j <= i
         IN  IF max_engagement > 0
             THEN [c \in {rows[i].campaign_id : i \in DOMAIN rows} |->
                     Rat(rows[last(c)].engagement_count, max_engagement)]
             ELSE <<>>

\* The dict built from the rows of the analytics data frame: a function
\* from campaign id to frequency; a later row of a campaign overwrites an
\* earlier one.
EngagementFrequency(rows) ==
    IF rows = <<>> THEN <<>>
    ELSE LET max_engagement == MaxCount(rows)
             last(c) == CHOOSE i \in DOMAIN rows :
                           /\ rows[i].campaign_id = c
                           /\ \A j \in DOMAIN rows :
                                 rows[j].campaign_id = c => j <= i
         IN  [c \in {rows[i].campaign_id : i \in DOMAIN rows} |->
                 IF max_engagement > 0
                 THEN Rat(rows[last(c)].engagement_count, max_engagement)
                 ELSE Zero]

\* ------------------------------------------------------------------------
\* get_recommendations: combining the scores and ranking
\* ------------------------------------------------------------------------

\* [u for u in similar_users if u["user_id"] in campaign["user_list"]]
RelevantUsers(similar_users, campaign) ==
    SelectSeq(similar_users, LAMBDA u : u.user_id \in Range(campaign.user_list))

AvgSimilarity(relevant_users) ==
    IF relevant_users = <<>> THEN Zero
    ELSE Mean([i \in DOMAIN relevant_users |-> relevant_users[i].similarity])

\* Variant: the user count is not capped at 1.
UserCountScoreUncapped(campaign, n_similar) ==
    IF n_similar > 0
    THEN Rat(campaign.user_count, n_similar)
    ELSE Zero

UserCountScore(campaign, n_similar) ==
    IF n_similar > 0
    THEN RMin(Rat(campaign.user_count, n_similar), One)
    ELSE Zero

\* Variant: a campaign without engagement data counts as fully engaged.
EngagementScoreDefaultOne(engagement_scores, campaign_id) ==
    IF campaign_id \in DOMAIN engagement_scores
    THEN engagement_scores[campaign_id]
    ELSE One

\* engagement_scores.get(campaign_id, 0.0)
EngagementScore(engagement_scores, campaign_id) ==
    IF campaign_id \in DOMAIN engagement_scores
    THEN engagement_scores[campaign_id]
    ELSE Zero

\* Variant: the weights of similarity and engagement are exchanged.
CombinedScoreSwapped(avg_similarity, user_count_score, engagement_score) ==
    RAdd(RAdd(RMul(W_ENGAGEMENT, avg_similarity),
              RMul(W_USER_COUNT, user_count_score)),
         RMul(W_SIMILARITY, engagement_score))

CombinedScore(avg_similarity, user_count_score, engagement_score) ==
    RAdd(RAdd(RMul(W_SIMILARITY, avg_similarity),
              RMul(W_USER_COUNT, user_count_score)),
         RMul(W_ENGAGEMENT, engagement_score))

Confidence(combined_score) == RMin(RMul(combined_score, CONFIDENCE_BOOST), One)

\* The dict appended to recommendations for one campaign.
Recommendation(campaign, similar_users, engagement_scores) ==
    LET avg_similarity == AvgSimilarity(RelevantUsers(similar_users, campaign))
        user_count_score == UserCountScore(campaign, Len(similar_users))
        engagement_score == EngagementScore(engagement_scores, campaign.campaign_id)
        combined_score == CombinedScore(avg_similarity, user_count_score, engagement_score)
    IN  [campaign_id |-> campaign.campaign_id,
         score |-> combined_score,
         confidence |-> Confidence(combined_score),
         metadata |-> [similarity_score |-> avg_similarity,
                       user_count |-> campaign.user_count,
                       engagement_frequency |-> engagement_score,
                       similar_users |-> Slice(campaign.user_list, META_USERS)]]

\* Variant: an item is placed before the items of equal score, as sorting
\* ascending and reversing the list would do.
RECURSIVE InsertDescendingUnstable(_, _)
InsertDescendingUnstable(sorted, x) ==
    IF sorted = <<>> THEN <<x>>
    ELSE IF RLt(x.score, Head(sorted).score)
         THEN <<Head(sorted)>> \o InsertDescendingUnstable(Tail(sorted), x)
         ELSE <<x>> \o sorted

\* recommendations.sort(key=score, reverse=True): stable, so items of equal
\* score keep their order.
RECURSIVE InsertDescending(_, _)
InsertDescending(sorted, x) ==
    IF sorted = <<>> THEN <<x>>
    ELSE IF RLe(x.score, Head(sorted).score)
         THEN <<Head(sorted)>> \o InsertDescending(Tail(sorted), x)
         ELSE <<x>> \o sorted

RECURSIVE SortDescending(_)
SortDescending(s) ==
    IF s = <<>> THEN <<>>
    ELSE InsertDescending(SortDescending(SubSeq(s, 1, Len(s) - 1)), s[Len(s)])

\* The ranking step: one recommendation per campaign, sorted, cut to top_k.
RankCampaigns(similar_users, campaigns, engagement_scores, top_k) ==
    Slice(SortDescending([i \in DOMAIN campaigns |->
              Recommendation(campaigns[i], similar_users, engagement_scores)]),
          top_k)

\* ------------------------------------------------------------------------
\* Backends: what the three stores hold and how a call to them can end
\* ------------------------------------------------------------------------

QUERY_USER == "u0"

CampaignIds == <<"c1", "c2", "c3", "c4">>

\* The raw hits of the vector index for the query user's embedding, nearest
\* first; the query user's own messages and repeated users are among them.
BaseHits ==
    <<[user_id |-> "u1", score |-> Rat(0, 1)],
      [user_id |-> "u2", score |-> Rat(1, 1)],
      [user_id |-> "u0", score |-> Rat(1, 1)],
      [user_id |-> "u1", score |-> Rat(2, 1)]>>

\* The graph: per campaign, the users with a SENT message ABOUT it.
BaseEdges ==
    <<[campaign_id |-> "c1", users |-> <<"u1", "u2">>],
      [campaign_id |-> "c2", users |-> <<"u2">>],
      [campaign_id |-> "c3", users |-> <<"u1", "u0">>],
      [campaign_id |-> "c4", users |-> <<"u3">>]>>

\* The analytics store: raw engagement counts per campaign.
BaseRows ==
    <<[campaign_id |-> "c2", engagement_count |-> 10],
      [campaign_id |-> "c1", engagement_count |-> 5],
      [campaign_id |-> "c3", engagement_count |-> 0],
      [campaign_id |-> "c4", engagement_count |-> 7]>>

Prefixes(s, n) == {SubSeq(s, 1, k) : k \in 0..n}

\* How a call to the vector index, the graph store, the analytics store and
\* the cache can end.
MilvusOutcomes == {"ok", "connect_error", "query_error"}
Neo4jOutcomes == {"ok", "driver_error", "query_error"}
AnalyticsOutcomes == {"ok", "error"}
RedisOutcomes == {"ok", "error"}

\* The Cypher query of get_campaigns_for_users: per campaign the distinct
\* users among user_ids connected to it, campaigns with none dropped,
\* ordered by user_count descending (campaigns of equal count in the
\* store's order).
RECURSIVE InsertByCount(_, _)
InsertByCount(sorted, x) ==
    IF sorted = <<>> THEN <<x>>
    ELSE IF Head(sorted).user_count >= x.user_count
         THEN <<Head(sorted)>> \o InsertByCount(Tail(sorted), x)
         ELSE <<x>> \o sorted

RECURSIVE GraphQuery(_, _)
GraphQuery(edges, user_ids) ==
    IF edges = <<>> THEN <<>>
    ELSE LET e == edges[Len(edges)]
             user_list == SelectSeq(e.users, LAMBDA u : u \in Range(user_ids))
             rest == GraphQuery(SubSeq(edges, 1, Len(edges) - 1), user_ids)
         IN  IF user_list = <<>> THEN rest
             ELSE InsertByCount(rest, [campaign_id |-> e.campaign_id,
                                       user_count |-> Len(user_list),
                                       user_list |-> user_list])

\* analytics_db.get_campaign_engagement_frequency: the rows of the given
\* campaigns.
AnalyticsQuery(rows, campaign_ids) ==
    SelectSeq(rows, LAMBDA r : r.campaign_id \in Range(campaign_ids))

\* ------------------------------------------------------------------------
\* State
\* ------------------------------------------------------------------------

VARIABLES
    milvusHits,             \* vector index: the hits a search returns
    graphEdges,             \* graph store: campaigns and their users
    analyticsRows,          \* analytics store: engagement counts
    recommendation_service, \* the module's _recommendation_service
    milvus_connected,       \* RecommendationService._milvus_connected
    neo4j_driver,           \* RecommendationService._neo4j_driver
    cache,                  \* the Redis cache, by cache key
    call,                   \* the request being handled
    first_ok,               \* per top_k, what the first undisturbed call returned
    rank_call,              \* an isolated run of the ranking step
    engagement_call,        \* an isolated run of the engagement scorer
    similar_call,           \* an isolated run of the similarity stage
    concurrent              \* request contexts running side by side

vars == <<milvusHits, graphEdges, analyticsRows, recommendation_service,
          milvus_connected, neo4j_driver, cache, call, first_ok,
          rank_call, engagement_call, similar_call, concurrent>>

backends == <<milvusHits, graphEdges, analyticsRows>>
pure_calls == <<rank_call, engagement_call, similar_call, concurrent>>

\* top_k as a request can carry it: the GET handler takes any integer.
TopKs == (-1)..MaxTopK

\* cache_key = f"recs:{user_id}:{top_k}"
CacheKey(user_id, top_k) == <<"recs", user_id, top_k>>
CacheKeys == {CacheKey(QUERY_USER, k) : k \in TopKs}

NoRankCall == [pc |-> "none"]
NoEngagementCall == [pc |-> "none"]
NoSimilarCall == [pc |-> "none"]
NoConcurrent == [pc |-> "none"]

NoTrace ==
    [similar_users |-> <<>>, campaigns |-> <<>>, engagement_scores |-> <<>>,
     sim_failed |-> FALSE, graph_queried |-> FALSE, graph_failed |-> FALSE,
     analytics_queried |-> FALSE, analytics_failed |-> FALSE,
     rank_ran |-> FALSE, raised |-> FALSE, escaped |-> FALSE]

IdleCall ==
    [pc |-> "idle", method |-> "", user_id |-> "", top_k |-> 0,
     min_confidence |-> Zero, redis |-> "ok",
     status |-> 0, source |-> "", recommendations |-> <<>>,
     orchestrated |-> 0,
     stored |-> FALSE, undisturbed |-> FALSE, trace |-> NoTrace]

\* ------------------------------------------------------------------------
\* RecommendationService
\* ------------------------------------------------------------------------

\* get_similar_users_vector with get_user_embedding and
\* _ensure_milvus_connection: a connection is made once; a failure to
\* connect or to query is logged and turned into an empty list.
GetSimilarUsersVector(user_id, top_k, connected, outcome, hits) ==
    IF ~connected /\ outcome = "connect_error"
    THEN [users |-> <<>>, connected |-> FALSE, failed |-> TRUE]
    ELSE IF outcome = "query_error"
    THEN [users |-> <<>>, connected |-> TRUE, failed |-> TRUE]
    ELSE [users |-> SimilarUsers(hits, user_id, top_k),
          connected |-> TRUE, failed |-> FALSE]

\* _get_neo4j_driver: the driver is created when there is none, then the
\* connection test reads self.neo4j_driver, an attribute the class never
\* sets (it sets self._neo4j_driver): the test raises AttributeError, which
\* is re-raised, with the created driver left in place.
GetNeo4jDriver(driver, outcome) ==
    IF driver = "none"
    THEN IF outcome = "driver_error"
         THEN [driver |-> "none", raised |-> TRUE]
         ELSE [driver |-> "driver", raised |-> TRUE]
    ELSE [driver |-> driver, raised |-> FALSE]

\* get_campaigns_for_users: any failure is logged and turned into [].
GetCampaignsForUsers(user_ids, driver, outcome, edges) ==
    IF user_ids = <<>>
    THEN [campaigns |-> <<>>, driver |-> driver, failed |-> FALSE,
          queried |-> FALSE]
    ELSE LET d == GetNeo4jDriver(driver, outcome)
         IN  IF d.raised
             THEN [campaigns |-> <<>>, driver |-> d.driver, failed |-> TRUE,
                   queried |-> TRUE]
             ELSE IF outcome = "query_error"
             THEN [campaigns |-> <<>>, driver |-> d.driver, failed |-> TRUE,
                   queried |-> TRUE]
             ELSE [campaigns |-> GraphQuery(edges, user_ids),
                   driver |-> d.driver, failed |-> FALSE, queried |-> TRUE]

\* get_campaign_engagement_frequency: any failure is turned into {}.
GetCampaignEngagementFrequency(campaign_ids, outcome, rows) ==
    IF outcome = "error"
    THEN [scores |-> <<>>, failed |-> TRUE]
    ELSE [scores |-> EngagementFrequency(AnalyticsQuery(rows, campaign_ids)),
          failed |-> FALSE]

\* if not similar_users: return []
NoSimilarUsers(similar_users) == similar_users = <<>>

\* Variant: the check for an empty campaign list is missing.
NoCampaignsUnchecked(campaigns) == FALSE

\* if not campaigns: return []
NoCampaigns(campaigns) == campaigns = <<>>

\* The body of get_recommendations inside its try: the three stages in
\* sequence, returning [] as soon as similar users or campaigns are empty;
\* rank_error is an exception raised while the scores are combined, which
\* leaves the body (escaped).
TryRecommendations(user_id, top_k, connected, driver, env) ==
    LET sim == GetSimilarUsersVector(user_id, FANOUT, connected,
                                     env.milvus, milvusHits)
        similar_user_ids == [i \in DOMAIN sim.users |-> sim.users[i].user_id]
        camp == GetCampaignsForUsers(similar_user_ids, driver,
                                     env.neo4j, graphEdges)
        campaign_ids == [i \in DOMAIN camp.campaigns |->
                            camp.campaigns[i].campaign_id]
        eng == GetCampaignEngagementFrequency(campaign_ids, env.analytics,
                                              analyticsRows)
        t1 == [NoTrace EXCEPT !.similar_users = sim.users,
                              !.sim_failed = sim.failed]
        t2 == [t1 EXCEPT !.campaigns = camp.campaigns,
                         !.graph_queried = camp.queried,
                         !.graph_failed = camp.failed]
        t3 == [t2 EXCEPT !.engagement_scores = eng.scores,
                         !.analytics_queried = TRUE,
                         !.analytics_failed = eng.failed]
    IN  IF NoSimilarUsers(sim.users)
        THEN [result |-> <<>>, connected |-> sim.connected,
              driver |-> driver, trace |-> t1]
        ELSE IF NoCampaigns(camp.campaigns)
        THEN [result |-> <<>>, connected |-> sim.connected,
              driver |-> camp.driver, trace |-> t2]
        ELSE IF env.rank_error
        THEN [result |-> <<>>, connected |-> sim.connected,
              driver |-> camp.driver,
              trace |-> [t3 EXCEPT !.raised = TRUE, !.escaped = TRUE]]
        ELSE [result |-> RankCampaigns(sim.users, camp.campaigns,
                                       eng.scores, top_k),
              connected |-> sim.connected, driver |-> camp.driver,
              trace |-> [t3 EXCEPT !.rank_ran = TRUE]]

\* Variant: no handler around the body, the exception leaves the call.
CatchAllMissing(r) == r

\* except Exception as e: logger.error(...); return []
CatchAll(r) ==
    IF r.trace.escaped
    THEN [r EXCEPT !.result = <<>>, !.trace.escaped = FALSE]
    ELSE r

GetRecommendations(user_id, top_k, connected, driver, env) ==
    CatchAll(TryRecommendations(user_id, top_k, connected, driver, env))

\* A call in which no backend call failed and nothing was raised.
Undisturbed(env) ==
    /\ env.milvus = "ok"
    /\ env.neo4j = "ok"
    /\ env.analytics = "ok"
    /\ ~env.rank_error

Envs ==
    [milvus : MilvusOutcomes, neo4j : Neo4jOutcomes,
     analytics : AnalyticsOutcomes, rank_error : BOOLEAN]

\* ------------------------------------------------------------------------
\* The HTTP handlers of main.py
\* ------------------------------------------------------------------------

\* The first half of get_recommendations(user_id, top_k): the cache is
\* read (a failing read counts as a miss); a cached response is returned
\* with source "cache", otherwise the request goes on to the service.
CheckCache(user_id, top_k, redis) ==
    LET key == CacheKey(user_id, top_k)
    IN  IF redis = "ok" /\ key \in DOMAIN cache
        THEN [IdleCall EXCEPT !.pc = "done", !.user_id = user_id,
                              !.top_k = top_k, !.redis = redis,
                              !.status = 200, !.source = "cache",
                              !.recommendations = cache[key].value.recommendations]
        ELSE [IdleCall EXCEPT !.pc = "miss", !.user_id = user_id,
                              !.top_k = top_k, !.redis = redis]

\* GET /recommendations/{user_id}?top_k=...: top_k is any integer.
GetRequest(top_k, redis) ==
    /\ call.pc = "idle"
    /\ call' = [CheckCache(QUERY_USER, top_k, redis) EXCEPT !.method = "GET"]
    /\ UNCHANGED <<backends, recommendation_service, milvus_connected,
                   neo4j_driver, cache, first_ok, pure_calls>>

\* min_confidence of a RecommendationRequest: the default and a stricter
\* value, both within the bounds ge=0.0, le=1.0 of the field.
MIN_CONFIDENCE_DEFAULT == Rat(1, 2)
MinConfidences == {MIN_CONFIDENCE_DEFAULT, Rat(3, 4)}

\* POST /recommendations: RecommendationRequest validates top_k and
\* min_confidence, then the GET handler is called with request.user_id and
\* request.top_k; request.min_confidence is not passed on.
PostRequest(top_k, min_confidence, redis) ==
    /\ call.pc = "idle"
    /\ TOPK_GE <= top_k /\ top_k <= TOPK_LE
    /\ RLe(Zero, min_confidence) /\ RLe(min_confidence, One)
    /\ call' = [CheckCache(QUERY_USER, top_k, redis) EXCEPT
                   !.method = "POST", !.min_confidence = min_confidence]
    /\ UNCHANGED <<backends, recommendation_service, milvus_connected,
                   neo4j_driver, cache, first_ok, pure_calls>>

\* first_ok after a call: the result of the first undisturbed call of a
\* top_k is kept, unless the record is switched off.
RecordFirst(top_k, env, result) ==
    IF first_ok.on /\ Undisturbed(env) /\ top_k \notin DOMAIN first_ok.results
    THEN [first_ok EXCEPT !.results = Put(@, top_k, result)]
    ELSE first_ok

\* The second half of the handler, on a cache miss:
\* get_recommendation_service() creates the service once, the service is
\* asked for recommendations, and the response is written to the cache
\* for CACHE_TTL seconds, marked degraded when the similarity stage, the
\* graph stage or the ranking failed in the call (a failing write is only logged; Redis is up or
\* down for the whole request). An exception of the service is answered
\* with status 500 and nothing is cached.
Orchestrate(env) ==
    /\ call.pc = "miss"
    /\ LET r == GetRecommendations(call.user_id, call.top_k,
                                   milvus_connected, neo4j_driver, env)
           response == [user_id |-> call.user_id,
                        recommendations |-> r.result,
                        source |-> "hybrid"]
           key == CacheKey(call.user_id, call.top_k)
       IN  /\ recommendation_service' = "created"
           /\ milvus_connected' = r.connected
           /\ neo4j_driver' = r.driver
           /\ cache' = IF call.redis = "ok" /\ ~r.trace.escaped
                       THEN Put(cache, key,
                               [value |-> response, ttl |-> CACHE_TTL,
                                degraded |-> \/ r.trace.sim_failed
                                             \/ r.trace.graph_failed
                                             \/ r.trace.raised])
                       ELSE cache
           /\ call' = [call EXCEPT !.pc = "done",
                                   !.status = IF r.trace.escaped
                                              THEN 500 ELSE 200,
                                   !.source = IF r.trace.escaped
                                              THEN "" ELSE "hybrid",
                                   !.recommendations = r.result,
                                   !.orchestrated = @ + 1,
                                   !.stored = (call.redis = "ok"
                                               /\ ~r.trace.escaped),
                                   !.undisturbed = Undisturbed(env),
                                   !.trace = r.trace]
           /\ first_ok' = RecordFirst(call.top_k, env, r.result)
    /\ UNCHANGED <<backends, pure_calls>>

\* The response is sent; the handler is free for the next request.
Respond ==
    /\ call.pc = "done"
    /\ call' = IdleCall
    /\ UNCHANGED <<backends, recommendation_service, milvus_connected,
                   neo4j_driver, cache, first_ok, pure_calls>>

\* Redis drops an entry when its time to live is over.
CacheExpire(key) ==
    /\ call.pc = "idle"
    /\ key \in DOMAIN cache
    /\ cache' = [k \in DOMAIN cache \ {key} |-> cache[k]]
    /\ UNCHANGED <<backends, recommendation_service, milvus_connected,
                   neo4j_driver, call, first_ok, pure_calls>>

\* After construction: nothing connected, nothing cached; the stores hold
\* some of their records.
InitService ==
    /\ recommendation_service = "none"
    /\ milvus_connected = FALSE
    /\ neo4j_driver = "none"
    /\ cache = <<>>
    /\ call = IdleCall

Init ==
    /\ milvusHits \in Prefixes(BaseHits, MaxHits)
    /\ graphEdges \in Prefixes(BaseEdges, MaxCampaigns)
    /\ analyticsRows \in Prefixes(BaseRows, MaxCampaigns)
    /\ InitService
    /\ first_ok = [on |-> FALSE, results |-> <<>>]
    /\ rank_call = NoRankCall
    /\ engagement_call = NoEngagementCall
    /\ similar_call = NoSimilarCall
    /\ concurrent = NoConcurrent

Next ==
    \/ \E k \in TopKs, redis \in RedisOutcomes : GetRequest(k, redis)
    \/ \E k \in TopKs, m \in MinConfidences, redis \in RedisOutcomes :
          PostRequest(k, m, redis)
    \/ \E env \in Envs : Orchestrate(env)
    \/ Respond
    \/ \E key \in CacheKeys : CacheExpire(key)

Spec == Init /\ [][Next]_vars

\* The same service with every store holding all its records and the
\* first result of each undisturbed call kept for comparison.
InitDeterminism ==
    /\ milvusHits = SubSeq(BaseHits, 1, MaxHits)
    /\ graphEdges = SubSeq(BaseEdges, 1, MaxCampaigns)
    /\ analyticsRows = SubSeq(BaseRows, 1, MaxCampaigns)
    /\ InitService
    /\ first_ok = [on |-> TRUE, results |-> <<>>]
    /\ rank_call = NoRankCall
    /\ engagement_call = NoEngagementCall
    /\ similar_call = NoSimilarCall
    /\ concurrent = NoConcurrent

SpecDeterminism == InitDeterminism /\ [][Next]_vars

\* ------------------------------------------------------------------------
\* The ranking step on its own, over all bounded backend answers
\* ------------------------------------------------------------------------

NeighborIds == {"u1", "u2"}
HitScores == {Rat(0, 1), Rat(1, 1)}
UserCounts == {1, 2, 3}
EngagementCounts == {0, 5, 10}

SeqsUpTo(S, n) == UNION {[1..k -> S] : k \in 0..n}

Distinct(s) == \A i, j \in DOMAIN s : s[i] = s[j] => i = j

\* Search results: one hit per neighbour, nearest first.
RankHits ==
    {h \in SeqsUpTo([user_id : NeighborIds, score : HitScores], MaxHits) :
        /\ h # <<>>
        /\ Distinct([i \in DOMAIN h |-> h[i].user_id])
        /\ \A i \in 1..(Len(h) - 1) : RLe(h[i].score, h[i + 1].score)}

\* Answers of the graph store: campaigns c1, c2, ... with any user count
\* and any list of users, ordered by user_count descending.
UserLists == {<<"u1">>, <<"u2">>, <<"u1", "u2">>}

RankCampaignLists ==
    {[i \in DOMAIN c |-> [campaign_id |-> CampaignIds[i],
                          user_count |-> c[i].user_count,
                          user_list |-> c[i].user_list]] :
        c \in {x \in SeqsUpTo([user_count : UserCounts,
                               user_list : UserLists],
                              MaxCampaigns) :
                  /\ x # <<>>
                  /\ \A i \in 1..(Len(x) - 1) :
                        x[i].user_count >= x[i + 1].user_count}}

\* Answers of the analytics store for campaigns c1, c2, ...: per campaign
\* no row (-1) or a row with a positive count.
RankRowLists ==
    {LET ids == SelectSeq(SubSeq(CampaignIds, 1, MaxCampaigns),
                          LAMBDA c : f[c] >= 0)
     IN  [i \in DOMAIN ids |-> [campaign_id |-> ids[i],
                                engagement_count |-> f[ids[i]]]] :
        f \in [Range(SubSeq(CampaignIds, 1, MaxCampaigns)) ->
                 {-1} \cup (EngagementCounts \ {0})]}

RankTopKs == (1..MaxTopK) \cup {FANOUT}

InitRank ==
    /\ \E h \in RankHits, c \in RankCampaignLists, rows \in RankRowLists,
          k \in RankTopKs :
          rank_call = [pc |-> "input",
                       similar_users |-> SimilarUsers(h, QUERY_USER, FANOUT),
                       campaigns |-> c,
                       engagement_scores |-> EngagementFrequency(rows),
                       top_k |-> k,
                       out |-> <<>>]
    /\ milvusHits = <<>>
    /\ graphEdges = <<>>
    /\ analyticsRows = <<>>
    /\ InitService
    /\ first_ok = [on |-> FALSE, results |-> <<>>]
    /\ engagement_call = NoEngagementCall
    /\ similar_call = NoSimilarCall
    /\ concurrent = NoConcurrent

\* Lines 300-343 of get_recommendations applied to the inputs.
RankStep ==
    /\ rank_call.pc = "input"
    /\ rank_call' = [rank_call EXCEPT
                        !.pc = "done",
                        !.out = RankCampaigns(rank_call.similar_users,
                                              rank_call.campaigns,
                                              rank_call.engagement_scores,
                                              rank_call.top_k)]
    /\ UNCHANGED <<backends, recommendation_service, milvus_connected,
                   neo4j_driver, cache, call, first_ok, engagement_call,
                   similar_call, concurrent>>

NextRank == RankStep

SpecRank == InitRank /\ [][NextRank]_vars

\* ------------------------------------------------------------------------
\* The engagement scorer on its own, over all bounded data frames
\* ------------------------------------------------------------------------

\* Data frames: one row per campaign, in any order.
EngagementRowLists ==
    {r \in SeqsUpTo([campaign_id : Range(CampaignIds),
                     engagement_count : EngagementCounts], MaxRows) :
        Distinct([i \in DOMAIN r |-> r[i].campaign_id])}

\* The campaign_ids a caller can pass when the store holds the given rows:
\* the campaigns of all rows, those of all rows but the first, or none.
Batches(store) ==
    LET ids == [i \in DOMAIN store |-> store[i].campaign_id]
    IN  {ids, IF ids = <<>> THEN <<>> ELSE Tail(ids), <<>>}

\* The calls of get_campaign_engagement_frequency that are tried.
EngagementInputs ==
    UNION {{[pc |-> "input", store |-> store, campaign_ids |-> campaign_ids,
             rows |-> <<>>, outcome |-> outcome, out |-> <<>>] :
               campaign_ids \in Batches(store),
               outcome \in AnalyticsOutcomes} :
           store \in EngagementRowLists}

InitEngagement ==
    /\ engagement_call \in EngagementInputs
    /\ milvusHits = <<>>
    /\ graphEdges = <<>>
    /\ analyticsRows = <<>>
    /\ InitService
    /\ first_ok = [on |-> FALSE, results |-> <<>>]
    /\ rank_call = NoRankCall
    /\ similar_call = NoSimilarCall
    /\ concurrent = NoConcurrent

\* get_campaign_engagement_frequency(campaign_ids); rows is the data frame
\* the store returned, when it did.
EngagementStep ==
    /\ engagement_call.pc = "input"
    /\ engagement_call' =
          [engagement_call EXCEPT
              !.pc = "done",
              !.rows = IF engagement_call.outcome = "ok"
                       THEN AnalyticsQuery(engagement_call.store,
                                           engagement_call.campaign_ids)
                       ELSE <<>>,
              !.out = GetCampaignEngagementFrequency(
                          engagement_call.campaign_ids,
                          engagement_call.outcome,
                          engagement_call.store).scores]
    /\ UNCHANGED <<backends, recommendation_service, milvus_connected,
                   neo4j_driver, cache, call, first_ok, rank_call,
                   similar_call, concurrent>>

NextEngagement == EngagementStep

SpecEngagement == InitEngagement /\ [][NextEngagement]_vars

\* ------------------------------------------------------------------------
\* The similarity stage on its own, over all bounded search results
\* ------------------------------------------------------------------------

SearchUserIds == <<"u1", "u2", "u3", "u4", "u5", "u6", "u7">>

\* Who the i-th hit of a search belongs to: a neighbour not met before,
\* the first neighbour again, or the query user.
HitUsers(i) == {SearchUserIds[i], SearchUserIds[1], QUERY_USER}

\* Distances of n hits as the index returns them, nearest first: zeros,
\* then ones.
SortedDistances(n) == {[i \in 1..n |-> IF i <= a THEN 0 ELSE 1] : a \in 0..n}

\* The users of n hits.
RECURSIVE UserPatterns(_)
UserPatterns(n) ==
    IF n = 0 THEN {<<>>}
    ELSE {Append(p, u) : p \in UserPatterns(n - 1), u \in HitUsers(n)}

\* The results of collection.search with up to max hits.
SearchResults(max) ==
    UNION {{[i \in 1..n |-> [user_id |-> u[i], score |-> Rat(d[i], 1)]] :
               u \in UserPatterns(n), d \in SortedDistances(n)} :
           n \in 1..max}

InitSimilar ==
    /\ \E hits \in SearchResults(MaxSearchHits), top_k \in {TOPK_GE, TOPK_LE} :
          similar_call = [pc |-> "input", hits |-> hits,
                          top_k |-> top_k, out |-> <<>>]
    /\ milvusHits = similar_call.hits
    /\ graphEdges = <<>>
    /\ analyticsRows = <<>>
    /\ InitService
    /\ first_ok = [on |-> FALSE, results |-> <<>>]
    /\ rank_call = NoRankCall
    /\ engagement_call = NoEngagementCall
    /\ concurrent = NoConcurrent

\* The first stage of get_recommendations(user_id, top_k) with the vector
\* index answering: out is the list of similar users the call works with.
SimilarStep ==
    /\ similar_call.pc = "input"
    /\ similar_call' =
          [similar_call EXCEPT
              !.pc = "done",
              !.out = TryRecommendations(
                          QUERY_USER, similar_call.top_k, milvus_connected,
                          neo4j_driver,
                          [milvus |-> "ok", neo4j |-> "ok", analytics |-> "ok",
                           rank_error |-> FALSE]).trace.similar_users]
    /\ UNCHANGED <<backends, recommendation_service, milvus_connected,
                   neo4j_driver, cache, call, first_ok, rank_call,
                   engagement_call, concurrent>>

NextSimilar == SimilarStep

SpecSimilar == InitSimilar /\ [][NextSimilar]_vars

\* ------------------------------------------------------------------------
\* Request contexts of a threaded host calling the core side by side
\* ------------------------------------------------------------------------

Contexts == 1..MaxContexts

\* concurrent.recommendation_service is the module's global (0 for None),
\* concurrent.neo4j_driver the _neo4j_driver field of every instance made
\* (0 for None, otherwise the number of the driver); svc is the instance a
\* context works with; services and drivers count what was created, and
\* replaced tells that an assignment overwrote a handle.
InitConcurrent ==
    /\ concurrent = [pc |-> [c \in Contexts |-> "idle"],
                     svc |-> [c \in Contexts |-> 0],
                     recommendation_service |-> 0,
                     neo4j_driver |-> <<>>,
                     services |-> 0,
                     drivers |-> 0,
                     replaced |-> FALSE]
    /\ milvusHits = <<>>
    /\ graphEdges = <<>>
    /\ analyticsRows = <<>>
    /\ InitService
    /\ first_ok = [on |-> FALSE, results |-> <<>>]
    /\ rank_call = NoRankCall
    /\ engagement_call = NoEngagementCall
    /\ similar_call = NoSimilarCall

Others == <<backends, recommendation_service, milvus_connected,
            neo4j_driver, cache, call, first_ok, rank_call,
            engagement_call, similar_call>>

\* get_recommendation_service: if _recommendation_service is None
ServiceCheck(c) ==
    /\ concurrent.pc[c] = "idle"
    /\ concurrent' =
          [concurrent EXCEPT
              !.pc[c] = IF concurrent.recommendation_service = 0
                        THEN "construct" ELSE "return"]
    /\ UNCHANGED Others

\* _recommendation_service = RecommendationService()
ServiceCreate(c) ==
    /\ concurrent.pc[c] = "construct"
    /\ concurrent' =
          [concurrent EXCEPT
              !.pc[c] = "return",
              !.neo4j_driver = Append(@, 0),
              !.recommendation_service = Len(concurrent.neo4j_driver) + 1,
              !.services = @ + 1,
              !.replaced = @ \/ concurrent.recommendation_service # 0]
    /\ UNCHANGED Others

\* return _recommendation_service
ServiceReturn(c) ==
    /\ concurrent.pc[c] = "return"
    /\ concurrent' =
          [concurrent EXCEPT
              !.pc[c] = "driver_check",
              !.svc[c] = concurrent.recommendation_service]
    /\ UNCHANGED Others

\* get_recommendations up to _get_neo4j_driver:
\* if self._neo4j_driver is None
DriverCheck(c) ==
    /\ concurrent.pc[c] = "driver_check"
    /\ concurrent' =
          [concurrent EXCEPT
              !.pc[c] = IF concurrent.neo4j_driver[concurrent.svc[c]] = 0
                        THEN "driver_create" ELSE "done"]
    /\ UNCHANGED Others

\* self._neo4j_driver = GraphDatabase.driver(...), which raises or
\* returns a new driver; the connection test that follows raises.
DriverCreate(c, outcome) ==
    /\ concurrent.pc[c] = "driver_create"
    /\ concurrent' =
          IF outcome = "driver_error"
          THEN [concurrent EXCEPT !.pc[c] = "done"]
          ELSE [concurrent EXCEPT
                   !.pc[c] = "done",
                   !.neo4j_driver[concurrent.svc[c]] = concurrent.drivers + 1,
                   !.drivers = @ + 1,
                   !.replaced =
                       @ \/ concurrent.neo4j_driver[concurrent.svc[c]] # 0]
    /\ UNCHANGED Others

\* The call returns; the context takes the next request.
Finish(c) ==
    /\ concurrent.pc[c] = "done"
    /\ concurrent' = [concurrent EXCEPT !.pc[c] = "idle"]
    /\ UNCHANGED Others

NextConcurrent ==
    \E c \in Contexts :
        \/ ServiceCheck(c)
        \/ ServiceCreate(c)
        \/ ServiceReturn(c)
        \/ DriverCheck(c)
        \/ \E outcome \in {"ok", "driver_error"} : DriverCreate(c, outcome)
        \/ Finish(c)

SpecConcurrent == InitConcurrent /\ [][NextConcurrent]_vars

\* ------------------------------------------------------------------------
\* Properties
\* ------------------------------------------------------------------------

\* The request just answered went through the service.
Orchestrated == call.pc = "done" /\ call.orchestrated = 1

In01(x) == RLe(Zero, x) /\ RLe(x, One)

\* C1: get_recommendations never raises to its caller: whatever the
\* stores do and whatever is raised while ranking, the call returns a list
\* (the handler answers 200), and the list is empty whenever the similarity
\* stage or the graph stage failed.
C1_NeverRaises ==
    Orchestrated =>
        /\ call.status = 200
        /\ ~call.trace.escaped
        /\ DOMAIN call.recommendations = 1..Len(call.recommendations)
        /\ (call.trace.sim_failed \/ call.trace.graph_failed \/ call.trace.raised)
              => call.recommendations = <<>>

\* A call in which the analytics store failed and ranking raised.
C1_Witness ==
    /\ Orchestrated
    /\ call.trace.analytics_failed
    /\ call.trace.raised
    /\ call.status = 200
    /\ call.recommendations = <<>>

\* C2: for every top_k a handler passes on, the list returned by
\* get_recommendations is no longer than top_k.
C2_LengthAtMostTopK ==
    Orchestrated => Len(call.recommendations) <= call.top_k

\* Where a campaign stands in the answer of the graph store.
PositionOf(campaigns, campaign_id) ==
    CHOOSE i \in DOMAIN campaigns : campaigns[i].campaign_id = campaign_id

\* C3: the returned list is ordered by score non-increasing, and
\* recommendations of equal score keep the order their campaigns had in
\* the answer of the graph store.
C3_SortedStable ==
    rank_call.pc = "done" =>
        \A i, j \in DOMAIN rank_call.out :
            i < j =>
                /\ RLe(rank_call.out[j].score, rank_call.out[i].score)
                /\ rank_call.out[i].score = rank_call.out[j].score
                      => PositionOf(rank_call.campaigns, rank_call.out[i].campaign_id)
                         < PositionOf(rank_call.campaigns, rank_call.out[j].campaign_id)

\* Two recommendations of equal score are returned.
C3_Witness ==
    /\ rank_call.pc = "done"
    /\ Len(rank_call.out) >= 2
    /\ rank_call.out[1].score = rank_call.out[2].score
    /\ rank_call.out[1].metadata.user_count # rank_call.out[2].metadata.user_count

\* C4: score, confidence, similarity_score and engagement_frequency of
\* every returned recommendation lie in [0, 1], also when the graph store
\* reports more users than there are neighbours.
C4_UnitInterval ==
    rank_call.pc = "done" =>
        \A i \in DOMAIN rank_call.out :
            /\ In01(rank_call.out[i].score)
            /\ In01(rank_call.out[i].confidence)
            /\ In01(rank_call.out[i].metadata.similarity_score)
            /\ In01(rank_call.out[i].metadata.engagement_frequency)

\* A recommendation of score 1 for a campaign with more users than
\* neighbours.
C4_Witness ==
    /\ rank_call.pc = "done"
    /\ \E i \in DOMAIN rank_call.out :
          /\ rank_call.out[i].metadata.user_count > Len(rank_call.similar_users)
          /\ rank_call.out[i].score = One

\* C5: without similar users the call returns [] and queries neither the
\* graph store nor the analytics store; with similar users but without
\* campaigns it returns [] and does not query the analytics store.
C5_ShortCircuit ==
    Orchestrated =>
        /\ call.trace.similar_users = <<>> =>
              /\ call.recommendations = <<>>
              /\ ~call.trace.graph_queried
              /\ ~call.trace.analytics_queried
        /\ (call.trace.similar_users # <<>> /\ call.trace.campaigns = <<>>) =>
              /\ call.recommendations = <<>>
              /\ ~call.trace.analytics_queried

\* The graph store answered, without failing, that the similar users
\* have no campaigns.
C5_Witness ==
    /\ Orchestrated
    /\ call.trace.similar_users # <<>>
    /\ call.trace.graph_queried
    /\ ~call.trace.graph_failed
    /\ call.trace.campaigns = <<>>

\* The engagement stage of the call just answered came back empty.
EmptyEngagement ==
    /\ Orchestrated
    /\ call.trace.campaigns # <<>>
    /\ call.trace.analytics_queried
    /\ DOMAIN call.trace.engagement_scores = {}

\* C6 as stated: an empty engagement map ends the call with an empty list
\* without running the ranking step.
C6_EmptyEngagementShortCircuits ==
    EmptyEngagement =>
        /\ call.recommendations = <<>>
        /\ ~call.trace.rank_ran

\* C6 as amended: empty similar users and empty campaigns end the call
\* with [] before ranking; an empty engagement map does not: ranking runs
\* with engagement 0 for every campaign and, unless ranking raises, the
\* ranked campaigns cut to top_k are returned (at least one for top_k >= 1).
C6_EmptyEngagementStillRanks ==
    /\ (Orchestrated /\ (call.trace.similar_users = <<>>
                         \/ call.trace.campaigns = <<>>)) =>
          /\ call.recommendations = <<>>
          /\ ~call.trace.rank_ran
    /\ (EmptyEngagement /\ ~call.trace.raised) =>
          /\ call.trace.rank_ran
          /\ Len(call.recommendations)
                = Len(Slice(call.trace.campaigns, call.top_k))
          /\ call.top_k >= 1 => call.recommendations # <<>>
          /\ \A i \in DOMAIN call.recommendations :
                call.recommendations[i].metadata.engagement_frequency = Zero

\* The analytics store failed and recommendations were returned.
C6_Witness ==
    /\ EmptyEngagement
    /\ call.trace.analytics_failed
    /\ call.trace.rank_ran
    /\ call.recommendations # <<>>

\* Sum of the similarities of the neighbours at the indices in I.
RECURSIVE SumAt(_, _)
SumAt(similar_users, I) ==
    IF I = {} THEN Zero
    ELSE LET i == CHOOSE x \in I : TRUE
         IN  RAdd(similar_users[i].similarity, SumAt(similar_users, I \ {i}))

\* score and confidence of campaign c as the formula gives them, with
\* the weights as integers over ten.
FormulaHolds(rec, c, similar_users, engagement_scores) ==
    LET members == {i \in DOMAIN similar_users :
                       \E j \in DOMAIN c.user_list :
                           c.user_list[j] = similar_users[i].user_id}
        avg == IF members = {} THEN Zero
               ELSE RDiv(SumAt(similar_users, members),
                         Rat(Cardinality(members), 1))
        ratio == Rat(c.user_count, Len(similar_users))
        capped == IF RLe(One, ratio) THEN One ELSE ratio
        engagement == IF c.campaign_id \in DOMAIN engagement_scores
                      THEN engagement_scores[c.campaign_id] ELSE Zero
        boosted == RMul(Rat(12, 1), rec.score)
    IN  /\ RMul(Rat(10, 1), rec.score)
              = RAdd(RAdd(RMul(Rat(3, 1), avg), RMul(Rat(2, 1), capped)),
                     RMul(Rat(5, 1), engagement))
        /\ RMul(Rat(10, 1), rec.confidence)
              = IF RLe(boosted, Rat(10, 1)) THEN boosted ELSE Rat(10, 1)

\* The example: neighbours at distances 0 and 1, one campaign connected to
\* both, no engagement data.
ExampleRanking ==
    /\ Len(rank_call.similar_users) = 2
    /\ rank_call.similar_users[1].similarity = One
    /\ rank_call.similar_users[2].similarity = Rat(1, 2)
    /\ Len(rank_call.campaigns) = 1
    /\ rank_call.campaigns[1].user_count = 2
    /\ Len(rank_call.campaigns[1].user_list) = 2
    /\ DOMAIN rank_call.engagement_scores = {}

\* C7: every recommendation has score = 0.3 * avg_similarity
\* + 0.2 * min(user_count / |neighbours|, 1) + 0.5 * engagement and
\* confidence = min(1.2 * score, 1); in the example score is 0.425 and
\* confidence 0.51.
C7_ScoreFormula ==
    rank_call.pc = "done" =>
        /\ \A i \in DOMAIN rank_call.out :
              FormulaHolds(rank_call.out[i],
                           rank_call.campaigns[PositionOf(rank_call.campaigns,
                                                          rank_call.out[i].campaign_id)],
                           rank_call.similar_users,
                           rank_call.engagement_scores)
        /\ ExampleRanking =>
              /\ Len(rank_call.out) = 1
              /\ rank_call.out[1].score = Rat(425, 1000)
              /\ rank_call.out[1].confidence = Rat(51, 100)

\* The example has been ranked.
C7_Witness ==
    /\ rank_call.pc = "done"
    /\ ExampleRanking
    /\ Len(rank_call.out) = 1
    /\ rank_call.out[1].metadata.similarity_score = Rat(3, 4)

\* C8: the cache is read first; a hit is answered without the service and
\* with source "cache"; a miss calls the service once and stores the
\* response for CACHE_TTL seconds; a result that is empty because a stage
\* failed is not stored.
C8_CacheOnlySuccessful ==
    /\ (call.pc = "done" /\ call.source = "cache") => call.orchestrated = 0
    /\ (call.pc = "done" /\ call.source = "hybrid") =>
          /\ call.orchestrated = 1
          /\ call.stored =>
                /\ CacheKey(call.user_id, call.top_k) \in DOMAIN cache
                /\ cache[CacheKey(call.user_id, call.top_k)].ttl = CACHE_TTL
    /\ \A key \in DOMAIN cache :
          ~(cache[key].degraded /\ cache[key].value.recommendations = <<>>)

\* C9: with all stores reachable and their data unchanged, a call returns
\* what the first such call with the same user and top_k returned.
C9_Deterministic ==
    (/\ Orchestrated
     /\ call.undisturbed
     /\ call.top_k \in DOMAIN first_ok.results)
        => call.recommendations = first_ok.results[call.top_k]

\* The largest count among the rows.
LargestCount(rows) ==
    CHOOSE m \in {rows[i].engagement_count : i \in DOMAIN rows} :
        \A i \in DOMAIN rows : rows[i].engagement_count <= m

\* Rows with the counts 10, 5 and 0.
ExampleRows ==
    /\ Len(engagement_call.rows) = 3
    /\ engagement_call.rows[1].engagement_count = 10
    /\ engagement_call.rows[2].engagement_count = 5
    /\ engagement_call.rows[3].engagement_count = 0

\* C10: every row's campaign gets count / (largest count of the batch), a
\* value in [0, 1], and 1 for a campaign holding a positive largest count;
\* the counts 10, 5, 0 give 1, 1/2, 0.
C10_Normalised ==
    (engagement_call.pc = "done" /\ engagement_call.outcome = "ok") =>
        /\ \A i \in DOMAIN engagement_call.rows :
              LET row == engagement_call.rows[i]
                  largest == LargestCount(engagement_call.rows)
              IN  /\ row.campaign_id \in DOMAIN engagement_call.out
                  /\ In01(engagement_call.out[row.campaign_id])
                  /\ largest > 0 =>
                        engagement_call.out[row.campaign_id][1] * largest
                           = row.engagement_count
                                * engagement_call.out[row.campaign_id][2]
                  /\ (largest > 0 /\ row.engagement_count = largest) =>
                        engagement_call.out[row.campaign_id] = One
        /\ ExampleRows =>
              /\ engagement_call.out[engagement_call.rows[1].campaign_id] = One
              /\ engagement_call.out[engagement_call.rows[2].campaign_id] = Rat(1, 2)
              /\ engagement_call.out[engagement_call.rows[3].campaign_id] = Zero

\* The counts 10, 5, 0 have been normalised.
C10_Witness ==
    /\ engagement_call.pc = "done"
    /\ engagement_call.outcome = "ok"
    /\ ExampleRows
    /\ DOMAIN engagement_call.out
          = {engagement_call.rows[i].campaign_id : i \in 1..3}

\* The rows returned to the call all have the count zero.
LargestCountZero ==
    /\ engagement_call.outcome = "ok"
    /\ engagement_call.rows # <<>>
    /\ LargestCount(engagement_call.rows) = 0

\* C11 as stated: get_campaign_engagement_frequency returns the empty map
\* when the batch is empty, when the store returns no rows, when the store
\* raises, and when the largest count of the returned rows is zero.
C11_EmptyMapCases ==
    (/\ engagement_call.pc = "done"
     /\ \/ engagement_call.campaign_ids = <<>>
        \/ engagement_call.rows = <<>>
        \/ engagement_call.outcome = "error"
        \/ LargestCountZero)
        => DOMAIN engagement_call.out = {}

\* C11 as amended: the empty map is returned when the batch is empty, when
\* the store returns no rows and when the store raises; when the largest
\* count of the returned rows is zero the map is not empty: it gives 0 to
\* the campaign of every returned row. In every other case the map is not
\* empty either.
C11_EmptyMapUnlessZeroCounts ==
    engagement_call.pc = "done" =>
        /\ (\/ engagement_call.campaign_ids = <<>>
            \/ engagement_call.rows = <<>>
            \/ engagement_call.outcome = "error")
              => DOMAIN engagement_call.out = {}
        /\ LargestCountZero =>
              /\ DOMAIN engagement_call.out
                    = {engagement_call.rows[i].campaign_id :
                          i \in DOMAIN engagement_call.rows}
              /\ \A c \in DOMAIN engagement_call.out :
                    engagement_call.out[c] = Zero
        /\ (engagement_call.outcome = "ok" /\ engagement_call.rows # <<>>)
              => DOMAIN engagement_call.out # {}

\* Two rows of count zero were returned for a batch of two campaigns.
C11_Witness ==
    /\ engagement_call.pc = "done"
    /\ LargestCountZero
    /\ Len(engagement_call.campaign_ids) = 2
    /\ Len(engagement_call.rows) = 2
    /\ Cardinality(DOMAIN engagement_call.out) = 2

\* C12: every recommendation in the response to a POST request has a
\* confidence of at least the request's min_confidence, and the response
\* holds at most top_k recommendations.
C12_PostHonoursMinConfidence ==
    (call.pc = "done" /\ call.method = "POST" /\ call.status = 200) =>
        /\ Len(call.recommendations) <= call.top_k
        /\ \A i \in DOMAIN call.recommendations :
              RLe(call.min_confidence, call.recommendations[i].confidence)

\* The raw distances of the hits of one user, in the order of the hits.
DistancesOf(hits, user_id) ==
    LET own == SelectSeq(hits, LAMBDA h : h.user_id = user_id)
    IN  [i \in DOMAIN own |-> own[i].score]

\* C13: the distance kept for a neighbour is the arithmetic mean of the
\* raw distances of all its hits, however many they are; the similarity
\* returned is 1 / (1 + that mean).
C13_MeanDistance ==
    similar_call.pc = "done" =>
        \A i \in DOMAIN similar_call.out :
            similar_call.out[i].similarity
               = DistanceToSimilarity(
                    Mean(DistancesOf(similar_call.hits,
                                     similar_call.out[i].user_id)))

\* C14: the list of similar users never holds the query user, holds each
\* user once, is ordered by similarity non-increasing, and has at most
\* FANOUT entries whatever top_k the caller of get_recommendations asked
\* for.
C14_NeighborList ==
    similar_call.pc = "done" =>
        /\ \A i \in DOMAIN similar_call.out :
              /\ similar_call.out[i].user_id # QUERY_USER
              /\ \E j \in DOMAIN similar_call.hits :
                    similar_call.hits[j].user_id = similar_call.out[i].user_id
        /\ \A i, j \in DOMAIN similar_call.out :
              /\ similar_call.out[i].user_id = similar_call.out[j].user_id
                    => i = j
              /\ i < j => RLe(similar_call.out[j].similarity,
                              similar_call.out[i].similarity)
        /\ Len(similar_call.out) <= FANOUT

\* The search found more than FANOUT neighbours at different distances,
\* and FANOUT of them were returned for a caller asking for twenty
\* recommendations.
C14_Witness ==
    /\ similar_call.pc = "done"
    /\ similar_call.top_k = TOPK_LE
    /\ Cardinality({similar_call.hits[i].user_id :
                       i \in DOMAIN similar_call.hits} \ {QUERY_USER}) > FANOUT
    /\ Len(similar_call.out) = FANOUT
    /\ similar_call.out[1].similarity # similar_call.out[FANOUT].similarity

\* C15: whatever the interleaving of the request contexts, at most one
\* RecommendationService and at most one graph driver are created, and no
\* assignment replaces a handle that was established.
C15_SingleHandles ==
    /\ concurrent.services <= 1
    /\ concurrent.drivers <= 1
    /\ ~concurrent.replaced

====
